---- MODULE Spec2Model ----
(* Model of sensortag_weather.py: the SensorTag collector loop that reads   *)
(* the sensors, filters implausible readings and inserts one row per        *)
(* cadence tick into a Google Sheets worksheet.                             *)
(*                                                                          *)
(* Numeric readings are fixed-point integers: raw sensor values are in      *)
(* thousandths of a unit, rounded readings (round(value, 2)) in hundredths. *)
(* Time is in whole seconds.                                                *)
EXTENDS Integers, Sequences, FiniteSets, TLC

\* ------------------------------------------------------------------ bounds
\* Largest row index the loop is followed to.
MaxRow == 3
\* Most acquisitions, over a run, that a BTLEException may cut short.
MaxEmpty == 2
\* Most append attempts, over a run, that may raise.
MaxStale == 2

\* ------------------------------------------------------- program constants
\* FREQUENCY_SECONDS = 55.0
FREQUENCY_SECONDS == 55
\* time.sleep(1.0) at the end of enable_sensors
SETTLE_SECONDS == 1
\* the +/- 2 band of the humidity_temp cross-check, in hundredths
TEMP_BAND == 200
\* the humidity bounds 1 and 99, in hundredths
HUMIDITY_MIN == 100
HUMIDITY_MAX == 9900
\* sys.exit(1)
EXIT_FAILURE == 1
\* row = 1
FIRST_ROW == 1
\* The empty cell '' written for a filtered reading (no reading has this value).
BLANK == -1000000

\* The channels enable_sensors / disable_sensors go through, in call order.
Sensors ==
  << "IRtemperature", "accelerometer", "humidity", "magnetometer",
     "barometer", "gyroscope", "keypress", "lightmeter" >>

NSensors == Len(Sensors)

AllSensors == { Sensors[i] : i \in 1..NSensors }

\* A column list with humidity and humidity_temp exchanged.
columns_Swapped ==
  << "ir_temp", "humidity", "baro_temp", "ir", "humidity_temp", "pressure", "light" >>

\* columns = [...] of append_readings
columns ==
  << "ir_temp", "humidity_temp", "baro_temp", "ir", "humidity", "pressure", "light" >>

Keys == { columns[i] : i \in 1..Len(columns) }

\* The dictionary {} .
EmptyDict == << >>

\* Raw values the device may return, in thousandths (none is a rounding tie).
RawIR == { << 22003, 20501 >> }
RawHumidity == { << 24004, 99004 >>, << 19994, 99006 >> }
RawBaro == { << 22502, 101324 >> }
RawLight == { 310004 }

\* Raw values for the study of the filters: ir_temp 15.01, 17.01 and 22.00
\* after rounding, humidity_temp at, inside and outside the +/- 2 band of
\* each, humidity at, inside and outside the bounds 1 and 99.
ValRawIR == { << 15012, 20501 >>, << 17008, 20501 >>, << 22003, 20501 >> }
ValRawHumidityTemp == { 13012, 15012, 17008, 19994, 20004, 24004, 24006 }
ValRawHumidity == { 994, 996, 1006, 50002, 98994, 99004, 99006 }

\* round(value, 2): thousandths to the nearest hundredth.
Round2(v) ==
  IF v >= 0 THEN (v + 5) \div 10 ELSE -((5 - v) \div 10)

\* readings = {key: round(value, 2) for key, value in readings.items()}
RoundAll(d) == [ k \in DOMAIN d |-> Round2(d[k]) ]

\* d[k1] = v1 and d[k2] = v2 added to the dictionary d.
Put2(d, k1, v1, k2, v2) ==
  [ k \in DOMAIN d \cup {k1, k2} |->
      IF k = k1 THEN v1 ELSE IF k = k2 THEN v2 ELSE d[k] ]

Put1(d, k1, v1) ==
  [ k \in DOMAIN d \cup {k1} |-> IF k = k1 THEN v1 ELSE d[k] ]

\* ---- Python floats. A reading is a float (an IEEE double); the rounded
\* reading with decimal value d/100 is the double nearest to d/100. A double
\* near d/100 is written << d, e >> and stands for the exact number
\* (d * 2^52 + e) / (100 * 2^52), 52 being the fraction bits of a double; e
\* is a few thousand at most. The encoding covers the doubles between 1 and
\* 64 (100 <= d < 6400).
RECURSIVE GridFrom(_, _)
GridFrom(d, g) == IF d >= 2 * g THEN GridFrom(d, 2 * g) ELSE g

\* Spacing of the doubles around d/100, in units of 1 / (100 * 2^52).
Grid(d) == GridFrom(d, 100)

\* 2^52 modulo m, as ((2^13)^2)^2 in steps that stay small (m <= 12800).
TwoPow52Mod(m) ==
  LET a == 8192 % m
      b == (a * a) % m
  IN  (b * b) % m

\* The double nearest to the exact number << d, e >>, ties to the even
\* mantissa (the rounding of every float operation).
FloatRound(d, e) ==
  LET g  == Grid(d)
      r  == ((d % g) * TwoPow52Mod(g) + e) % g
      lo == e - r
      hi == e + g - r
      loEven == ((d % (2 * g)) * TwoPow52Mod(2 * g) + lo) % (2 * g) = 0
  IN  IF 2 * r < g THEN << d, lo >>
      ELSE IF 2 * r > g THEN << d, hi >>
      ELSE IF loEven THEN << d, lo >> ELSE << d, hi >>

\* The float a rounded reading of d hundredths is.
Float(d) == FloatRound(d, 0)

\* x + 2 and x - 2 in float arithmetic.
FloatAdd(x, band) == FloatRound(x[1] + band, x[2])
FloatSub(x, band) == FloatRound(x[1] - band, x[2])

\* x < y on floats.
FloatLess(x, y) == x[1] < y[1] \/ (x[1] = y[1] /\ x[2] < y[2])

\* humidity_temp < ir_temp - 2 or humidity_temp > ir_temp + 2, on floats.
TooFarFloat(ht, it) ==
  \/ FloatLess(Float(ht), FloatSub(Float(it), TEMP_BAND))
  \/ FloatLess(FloatAdd(Float(it), TEMP_BAND), Float(ht))

\* The temperatures a reading of the model can show, and the comparison
\* computed once for each pair of them.
Temperatures ==
  { Round2(v) : v \in ValRawHumidityTemp \cup
                       { p[1] : p \in RawIR \cup ValRawIR \cup RawHumidity } }

TooFarTable ==
  [ ht \in Temperatures, it \in Temperatures |-> TooFarFloat(ht, it) ]

TooFar(ht, it) == TooFarTable[ht, it]

\* A cross-check that nulls the reference reading instead.
FilterHumidityTemp_NullsIR(r) ==
  IF TooFar(r["humidity_temp"], r["ir_temp"])
  THEN [ r EXCEPT !["ir_temp"] = BLANK ]
  ELSE r

\* The two filters at the head of append_readings, applied in place.
FilterHumidityTemp(r) ==
  IF TooFar(r["humidity_temp"], r["ir_temp"])
  THEN [ r EXCEPT !["humidity_temp"] = BLANK ]
  ELSE r

\* A range rule that also rejects the bounds 1 and 99.
FilterHumidity_Open(r) ==
  IF r["humidity"] <= HUMIDITY_MIN \/ r["humidity"] >= HUMIDITY_MAX
  THEN [ r EXCEPT !["humidity"] = BLANK ]
  ELSE r

\* The comparisons readings["humidity"] < 1 and > 99 are exact: 1 and 99 are
\* doubles and the nearest double of d/100 lies on the same side of them as
\* d/100 does.
FilterHumidity(r) ==
  IF r["humidity"] < HUMIDITY_MIN \/ r["humidity"] > HUMIDITY_MAX
  THEN [ r EXCEPT !["humidity"] = BLANK ]
  ELSE r

\* An append_readings without the two filters.
Validate_Skip(r) == r

Validate(r) == FilterHumidity(FilterHumidityTemp(r))

\* readings.get(col, '')
Get(r, col) == IF col \in DOMAIN r THEN r[col] ELSE BLANK

\* [datetime.datetime.now()] + [readings.get(col, '') for col in columns]
RowValues(ts, r) ==
  << ts >> \o [ i \in 1..Len(columns) |-> Get(r, columns[i]) ]

\* insert_row that ignores the index and always inserts at the top.
insert_row_AtTop(sheet, values, index) ==
  << values >> \o sheet

\* insert_row that puts the row below row `index` (below a header for index 1).
insert_row_Below(sheet, values, index) ==
  IF index > Len(sheet)
  THEN Append(sheet, values)
  ELSE SubSeq(sheet, 1, index) \o << values >> \o SubSeq(sheet, index + 1, Len(sheet))

\* worksheet.insert_row(values, index): the row becomes row `index`, the rows
\* from `index` on move down by one.
insert_row(sheet, values, index) ==
  SubSeq(sheet, 1, index - 1) \o << values >> \o SubSeq(sheet, index, Len(sheet))

\* A row the worksheet holds before the run starts (a header line).
HeaderRow == << 0 >> \o [ i \in 1..Len(columns) |-> BLANK ]

InitialSheets == { << >>, << HeaderRow >> }

\* ------------------------------------------------------------------- state
VARIABLES
  pc,            \* position of the process in start_sensortag / get_readings
  enabled,       \* sensor channels enabled on the tag
  partial,       \* the local dictionary `readings` inside get_readings
  readings,      \* the variable `readings` of start_sensortag
  worksheet,     \* the variable `worksheet`: 0 is None, n the n-th handle opened
  row,           \* the variable `row`; 0 before line 194 runs
  sheet,         \* the rows of the remote worksheet, top row first
  now,           \* the clock datetime.datetime.now() reads, in seconds
  exitCode,      \* exit status of the process, 0 while it runs
  exitCause,     \* the call whose failure ended the process
  \* ---- observations of the run (history)
  openCalls,     \* calls of login_open_sheet
  opens,         \* calls of login_open_sheet that returned a worksheet
  nAcq,          \* calls of get_readings
  nEmpty,        \* calls of get_readings that returned {}
  nStale,        \* calls of append_readings that returned None
  emptyRun,      \* {} results seen by the loop since `row` last changed
  staleRun,      \* None results seen by the loop since `row` last changed
  rowAtEmpty,    \* `row` when the first {} of the current run of {} was seen
  insAtEmpty,    \* rows inserted so far when that first {} was seen
  stalePending,  \* the last append attempt returned None and none followed
  failedIndex,   \* `row` passed to that failed attempt (0 when none is pending)
  failedSample,  \* the filtered readings of that failed attempt
  acqSinceStale, \* calls of get_readings since that failed attempt
  inserts,       \* the index of every insert_row that succeeded, in order
  faulted,       \* the current / last get_readings caught a BTLEException
  enabledAll,    \* the current / last get_readings completed enable_sensors
  disableCalls   \* channels the current / last get_readings called disable on

prog == << pc, enabled, partial, readings, worksheet, row, sheet, now,
           exitCode, exitCause >>

hist == << openCalls, opens, nAcq, nEmpty, nStale, emptyRun, staleRun,
           rowAtEmpty, insAtEmpty, stalePending, failedIndex, failedSample,
           acqSinceStale, inserts, faulted, enabledAll, disableCalls >>

vars == << prog, hist >>

Terminated == pc \in { "exited", "crashed" }

\* The loop `while True` has been entered (row = 1 was executed).
LoopStarted == row >= FIRST_ROW

Init ==
  /\ pc = "start"
  /\ enabled = {}
  /\ partial = EmptyDict
  /\ readings = EmptyDict
  /\ worksheet = 0
  /\ row = 0
  /\ sheet \in InitialSheets
  /\ now = 0
  /\ exitCode = 0
  /\ exitCause = "none"
  /\ openCalls = 0
  /\ opens = 0
  /\ nAcq = 0
  /\ nEmpty = 0
  /\ nStale = 0
  /\ emptyRun = 0
  /\ staleRun = 0
  /\ rowAtEmpty = 0
  /\ insAtEmpty = 0
  /\ stalePending = FALSE
  /\ failedIndex = 0
  /\ failedSample = EmptyDict
  /\ acqSinceStale = 0
  /\ inserts = << >>
  /\ faulted = FALSE
  /\ enabledAll = FALSE
  /\ disableCalls = {}

\* ------------------------------------------------------- start-up and login
\* An exception nothing catches: the interpreter prints the traceback and the
\* process ends with status 1.
Uncaught(cause) ==
  /\ pc' = "crashed"
  /\ exitCode' = EXIT_FAILURE
  /\ exitCause' = cause

\* tag = SensorTag(SENSORTAG_ADDRESS) connects to the device.
StartConnectOk ==
  /\ pc = "start"
  /\ pc' = "login"
  /\ UNCHANGED << enabled, partial, readings, worksheet, row, sheet, now,
                  exitCode, exitCause, hist >>

StartConnectFail ==
  /\ pc = "start"
  /\ Uncaught("connect")
  /\ UNCHANGED << enabled, partial, readings, worksheet, row, sheet, now, hist >>

\* login_open_sheet whose except branch returns None instead of exiting.
login_open_sheet_NoExit(ok) ==
  /\ openCalls' = openCalls + 1
  /\ opens' = IF ok THEN opens + 1 ELSE opens
  /\ worksheet' = IF ok THEN opens + 1 ELSE 0
  /\ pc' = "acquire"
  /\ UNCHANGED << exitCode, exitCause >>

\* login_open_sheet called from position pc: it returns a fresh worksheet
\* handle (ok), or prints the diagnostic and calls sys.exit(1).
login_open_sheet(ok) ==
  /\ openCalls' = openCalls + 1
  /\ IF ok
     THEN /\ opens' = opens + 1
          /\ worksheet' = opens + 1
          /\ pc' = "acquire"
          /\ UNCHANGED << exitCode, exitCause >>
     ELSE /\ pc' = "exited"
          /\ exitCode' = EXIT_FAILURE
          /\ exitCause' = pc
          /\ UNCHANGED << opens, worksheet >>

\* worksheet = login_open_sheet(...) of line 189, then row = 1.
StartLoginOk ==
  /\ pc = "login"
  /\ login_open_sheet(TRUE)
  /\ row' = FIRST_ROW
  /\ UNCHANGED << enabled, partial, readings, sheet, now >>
  /\ UNCHANGED << nAcq, nEmpty, nStale, emptyRun, staleRun, rowAtEmpty,
                  insAtEmpty, stalePending, failedIndex, failedSample,
                  acqSinceStale, inserts, faulted, enabledAll, disableCalls >>

StartLoginFail ==
  /\ pc = "login"
  /\ login_open_sheet(FALSE)
  /\ UNCHANGED << enabled, partial, readings, row, sheet, now >>
  /\ UNCHANGED << nAcq, nEmpty, nStale, emptyRun, staleRun, rowAtEmpty,
                  insAtEmpty, stalePending, failedIndex, failedSample,
                  acqSinceStale, inserts, faulted, enabledAll, disableCalls >>

\* ------------------------------------------------------------ get_readings
loginHist == << openCalls, opens >>
exitState == << exitCode, exitCause >>
loopHist  == << emptyRun, staleRun, rowAtEmpty, insAtEmpty >>
staleHist == << stalePending, failedIndex, failedSample >>

\* The first n channels of Sensors.
FirstSensors(n) == { Sensors[i] : i \in 1..n }

\* An except branch that returns what was read so far.
ExceptBTLE_Partial ==
  /\ readings' = RoundAll(partial)
  /\ partial' = EmptyDict
  /\ faulted' = TRUE
  /\ nEmpty' = nEmpty + 1
  /\ pc' = "returned"

\* except BTLEException: print the error and return {} (lines 98-101).
ExceptBTLE ==
  /\ readings' = EmptyDict
  /\ partial' = EmptyDict
  /\ faulted' = TRUE
  /\ nEmpty' = nEmpty + 1
  /\ pc' = "returned"

\* readings = get_readings(tag) is called; readings = {}; enable_sensors(tag).
\* The k-th enable() raises BTLEException when k <= NSensors; with
\* k = NSensors + 1 all eight succeed and time.sleep(1.0) follows.
GetEnable(k) ==
  /\ pc = "acquire"
  /\ k <= NSensors => nEmpty < MaxEmpty
  /\ nAcq' = nAcq + 1
  /\ acqSinceStale' = IF stalePending THEN acqSinceStale + 1 ELSE acqSinceStale
  /\ enabled' = enabled \cup FirstSensors(k - 1)
  /\ enabledAll' = (k > NSensors)
  /\ disableCalls' = {}
  /\ IF k > NSensors
     THEN /\ now' = now + SETTLE_SECONDS
          /\ partial' = EmptyDict
          /\ faulted' = FALSE
          /\ pc' = "read_ir"
          /\ UNCHANGED << readings, nEmpty >>
     ELSE /\ ExceptBTLE
          /\ now' = now
  /\ UNCHANGED << worksheet, row, sheet, exitState, loginHist, nStale,
                  loopHist, staleHist, inserts >>

\* What a step inside get_readings leaves alone.
ReadFrame ==
  UNCHANGED << enabled, worksheet, row, sheet, now, exitState, loginHist,
               nAcq, nStale, loopHist, staleHist, acqSinceStale, inserts,
               enabledAll, disableCalls >>

\* readings["ir_temp"], readings["ir"] = tag.IRtemperature.read()
GetReadIR(v) ==
  /\ pc = "read_ir"
  /\ partial' = Put2(partial, "ir_temp", v[1], "ir", v[2])
  /\ pc' = "read_hum"
  /\ UNCHANGED << readings, nEmpty, faulted >>
  /\ ReadFrame

\* readings["humidity_temp"], readings["humidity"] = tag.humidity.read()
GetReadHumidity(v) ==
  /\ pc = "read_hum"
  /\ partial' = Put2(partial, "humidity_temp", v[1], "humidity", v[2])
  /\ pc' = "read_baro"
  /\ UNCHANGED << readings, nEmpty, faulted >>
  /\ ReadFrame

\* readings["baro_temp"], readings["pressure"] = tag.barometer.read()
GetReadBaro(v) ==
  /\ pc = "read_baro"
  /\ partial' = Put2(partial, "baro_temp", v[1], "pressure", v[2])
  /\ pc' = "read_light"
  /\ UNCHANGED << readings, nEmpty, faulted >>
  /\ ReadFrame

\* readings["light"] = tag.lightmeter.read()
GetReadLight(v) ==
  /\ pc = "read_light"
  /\ partial' = Put1(partial, "light", v)
  /\ pc' = "disable"
  /\ UNCHANGED << readings, nEmpty, faulted >>
  /\ ReadFrame

ReadPositions == { "read_ir", "read_hum", "read_baro", "read_light" }

\* One of the four read() calls raises BTLEException.
GetReadFault ==
  /\ pc \in ReadPositions
  /\ nEmpty < MaxEmpty
  /\ ExceptBTLE
  /\ ReadFrame

\* A get_readings that forgets disable_sensors(tag) before it returns.
GetDisable_NoDisable(k) ==
  /\ pc = "disable"
  /\ k > NSensors
  /\ readings' = RoundAll(partial)
  /\ partial' = EmptyDict
  /\ pc' = "returned"
  /\ UNCHANGED << enabled, worksheet, row, sheet, now, exitState, loginHist,
                  nAcq, nEmpty, nStale, loopHist, staleHist, acqSinceStale,
                  inserts, faulted, enabledAll, disableCalls >>

\* disable_sensors(tag), the rounding and `return readings`. The k-th
\* disable() raises BTLEException when k <= NSensors.
GetDisable(k) ==
  /\ pc = "disable"
  /\ k <= NSensors => nEmpty < MaxEmpty
  /\ enabled' = enabled \ FirstSensors(k - 1)
  /\ disableCalls' = FirstSensors(IF k > NSensors THEN NSensors ELSE k)
  /\ IF k > NSensors
     THEN /\ readings' = RoundAll(partial)
          /\ partial' = EmptyDict
          /\ pc' = "returned"
          /\ UNCHANGED << nEmpty, faulted >>
     ELSE ExceptBTLE
  /\ UNCHANGED << worksheet, row, sheet, now, exitState, loginHist, nAcq,
                  nStale, loopHist, staleHist, acqSinceStale, inserts,
                  enabledAll >>

\* ---------------------------------------------------------------- reconnect
\* An empty-readings branch that falls through to row += 1.
LoopEmpty_Advances ==
  /\ pc = "returned"
  /\ readings = EmptyDict
  /\ pc' = "reconnect"
  /\ row' = row + 1
  /\ emptyRun' = emptyRun + 1
  /\ rowAtEmpty' = IF emptyRun = 0 THEN row ELSE rowAtEmpty
  /\ insAtEmpty' = IF emptyRun = 0 THEN Len(inserts) ELSE insAtEmpty
  /\ UNCHANGED << enabled, partial, readings, worksheet, sheet, now,
                  exitState, loginHist, nAcq, nEmpty, nStale, staleRun,
                  staleHist, acqSinceStale, inserts, faulted, enabledAll,
                  disableCalls >>

\* `if not readings:` is taken: print, then reconnect(tag) is called.
LoopEmpty ==
  /\ pc = "returned"
  /\ readings = EmptyDict
  /\ pc' = "reconnect"
  /\ emptyRun' = emptyRun + 1
  /\ rowAtEmpty' = IF emptyRun = 0 THEN row ELSE rowAtEmpty
  /\ insAtEmpty' = IF emptyRun = 0 THEN Len(inserts) ELSE insAtEmpty
  /\ UNCHANGED << enabled, partial, readings, worksheet, row, sheet, now,
                  exitState, loginHist, nAcq, nEmpty, nStale, staleRun,
                  staleHist, acqSinceStale, inserts, faulted, enabledAll,
                  disableCalls >>

\* A loop that prints the readings and goes to the sleep without appending.
LoopPrint_SkipAppend ==
  /\ pc = "returned"
  /\ readings # EmptyDict
  /\ pc' = "sleep"
  /\ UNCHANGED << enabled, partial, readings, worksheet, row, sheet, now,
                  exitState, hist >>

\* `if not readings:` is not taken: the readings are printed and
\* append_readings is called.
LoopPrint ==
  /\ pc = "returned"
  /\ readings # EmptyDict
  /\ pc' = "append"
  /\ UNCHANGED << enabled, partial, readings, worksheet, row, sheet, now,
                  exitState, hist >>

\* reconnect(tag): tag.connect succeeds, then `continue`.
ReconnectOk ==
  /\ pc = "reconnect"
  /\ pc' = "acquire"
  /\ UNCHANGED << enabled, partial, readings, worksheet, row, sheet, now,
                  exitState, hist >>

\* reconnect(tag): tag.connect raises; reconnect prints and re-raises, and
\* nothing in start_sensortag catches it.
ReconnectFail ==
  /\ pc = "reconnect"
  /\ Uncaught("reconnect")
  /\ UNCHANGED << enabled, partial, readings, worksheet, row, sheet, now, hist >>

\* ----------------------------------------------------------- append_readings
\* append_readings(worksheet, readings, row) filters the readings in place,
\* inserts the row and returns the worksheet; the loop goes on to the
\* cadence sleep.
AppendOk ==
  /\ pc = "append"
  /\ readings' = Validate(readings)
  /\ sheet' = insert_row(sheet, RowValues(now, Validate(readings)), row)
  /\ inserts' = Append(inserts, row)
  /\ stalePending' = FALSE
  /\ failedIndex' = 0
  /\ failedSample' = EmptyDict
  /\ acqSinceStale' = 0
  /\ pc' = "sleep"
  /\ UNCHANGED << enabled, partial, worksheet, row, now, exitState, loginHist,
                  nAcq, nEmpty, nStale, loopHist, faulted, enabledAll,
                  disableCalls >>

\* A failed append after which the loop still advances row.
AppendFail_Advances ==
  /\ pc = "append"
  /\ nStale < MaxStale
  /\ readings' = Validate(readings)
  /\ worksheet' = 0
  /\ row' = row + 1
  /\ nStale' = nStale + 1
  /\ staleRun' = staleRun + 1
  /\ stalePending' = TRUE
  /\ failedIndex' = row
  /\ failedSample' = Validate(readings)
  /\ acqSinceStale' = 0
  /\ pc' = "relogin"
  /\ UNCHANGED << enabled, partial, sheet, now, exitState, loginHist,
                  nAcq, nEmpty, emptyRun, rowAtEmpty, insAtEmpty, inserts,
                  faulted, enabledAll, disableCalls >>

\* An append that raises after the row went in (the exception comes from the
\* line after insert_row).
AppendFail_Inserted ==
  /\ pc = "append"
  /\ nStale < MaxStale
  /\ readings' = Validate(readings)
  /\ sheet' = insert_row(sheet, RowValues(now, Validate(readings)), row)
  /\ inserts' = Append(inserts, row)
  /\ worksheet' = 0
  /\ nStale' = nStale + 1
  /\ staleRun' = staleRun + 1
  /\ stalePending' = TRUE
  /\ failedIndex' = row
  /\ failedSample' = Validate(readings)
  /\ acqSinceStale' = 0
  /\ pc' = "relogin"
  /\ UNCHANGED << enabled, partial, row, now, exitState, loginHist,
                  nAcq, nEmpty, emptyRun, rowAtEmpty, insAtEmpty,
                  faulted, enabledAll, disableCalls >>

\* insert_row raises: append_readings prints "Append error" and returns None
\* with the worksheet as it was; `if worksheet is None:` is taken.
AppendFail ==
  /\ pc = "append"
  /\ nStale < MaxStale
  /\ readings' = Validate(readings)
  /\ worksheet' = 0
  /\ nStale' = nStale + 1
  /\ staleRun' = staleRun + 1
  /\ stalePending' = TRUE
  /\ failedIndex' = row
  /\ failedSample' = Validate(readings)
  /\ acqSinceStale' = 0
  /\ pc' = "relogin"
  /\ UNCHANGED << enabled, partial, row, sheet, now, exitState, loginHist,
                  nAcq, nEmpty, emptyRun, rowAtEmpty, insAtEmpty, inserts,
                  faulted, enabledAll, disableCalls >>

\* What the login of line 215 leaves alone.
ReloginFrame ==
  UNCHANGED << enabled, partial, readings, row, sheet, now, nAcq, nEmpty,
               nStale, loopHist, staleHist, acqSinceStale, inserts, faulted,
               enabledAll, disableCalls >>

\* worksheet = login_open_sheet(...) of line 215, then `continue`.
ReloginOk ==
  /\ pc = "relogin"
  /\ login_open_sheet(TRUE)
  /\ ReloginFrame

ReloginFail ==
  /\ pc = "relogin"
  /\ login_open_sheet(FALSE)
  /\ ReloginFrame

\* A cadence sleep that forgets row += 1.
Sleep_NoAdvance ==
  /\ pc = "sleep"
  /\ row < MaxRow
  /\ now' = now + FREQUENCY_SECONDS
  /\ emptyRun' = 0
  /\ staleRun' = 0
  /\ rowAtEmpty' = 0
  /\ insAtEmpty' = 0
  /\ pc' = "acquire"
  /\ UNCHANGED << enabled, partial, readings, worksheet, row, sheet, exitState,
                  loginHist, nAcq, nEmpty, nStale, staleHist, acqSinceStale,
                  inserts, faulted, enabledAll, disableCalls >>

\* print(); time.sleep(FREQUENCY_SECONDS); row += 1
Sleep ==
  /\ pc = "sleep"
  /\ row < MaxRow
  /\ now' = now + FREQUENCY_SECONDS
  /\ row' = row + 1
  /\ emptyRun' = 0
  /\ staleRun' = 0
  /\ rowAtEmpty' = 0
  /\ insAtEmpty' = 0
  /\ pc' = "acquire"
  /\ UNCHANGED << enabled, partial, readings, worksheet, sheet, exitState,
                  loginHist, nAcq, nEmpty, nStale, staleHist, acqSinceStale,
                  inserts, faulted, enabledAll, disableCalls >>

\* ------------------------------------------------------------ specification
Next ==
  \/ StartConnectOk
  \/ StartConnectFail
  \/ StartLoginOk
  \/ StartLoginFail
  \/ \E k \in 1..(NSensors + 1) : GetEnable(k)
  \/ \E v \in RawIR : GetReadIR(v)
  \/ \E v \in RawHumidity : GetReadHumidity(v)
  \/ \E v \in RawBaro : GetReadBaro(v)
  \/ \E v \in RawLight : GetReadLight(v)
  \/ GetReadFault
  \/ \E k \in 1..(NSensors + 1) : GetDisable(k)
  \/ LoopEmpty
  \/ LoopPrint
  \/ ReconnectOk
  \/ ReconnectFail
  \/ AppendOk
  \/ AppendFail
  \/ ReloginOk
  \/ ReloginFail
  \/ Sleep

Spec == Init /\ [][Next]_vars

\* ------------------------------------------- the loop when recovery succeeds
\* The steps of a run in which the device connects, every login and every
\* reconnect succeeds; acquisitions and appends still fail, MaxEmpty and
\* MaxStale times at most. No branch of the loop depends on the values read,
\* so the runs follow one humidity sample: the one the humidity filter blanks.
LiveHumidity == { << 19994, 99006 >> }

NextRecovering ==
  \/ StartConnectOk
  \/ StartLoginOk
  \/ \E k \in 1..(NSensors + 1) : GetEnable(k)
  \/ \E v \in RawIR : GetReadIR(v)
  \/ \E v \in LiveHumidity : GetReadHumidity(v)
  \/ \E v \in RawBaro : GetReadBaro(v)
  \/ \E v \in RawLight : GetReadLight(v)
  \/ GetReadFault
  \/ \E k \in 1..(NSensors + 1) : GetDisable(k)
  \/ LoopEmpty
  \/ LoopPrint
  \/ ReconnectOk
  \/ AppendOk
  \/ AppendFail
  \/ ReloginOk
  \/ Sleep

\* The process is sequential and runs whenever it can: each call returns and
\* each sleep ends.
SpecLive == Init /\ [][NextRecovering]_vars /\ WF_vars(NextRecovering)

\* ---------------------------------------- the append step on a range of samples
\* The dictionary get_readings holds after its last read.
RawSample(ir, ht, h, baro, light) ==
  Put1(Put2(Put2(Put2(EmptyDict, "ir_temp", ir[1], "ir", ir[2]),
                 "humidity_temp", ht, "humidity", h),
            "baro_temp", baro[1], "pressure", baro[2]),
       "light", light)

\* The first acquisition of a run, after its four reads succeeded.
ValidateInit ==
  /\ pc = "disable"
  /\ enabled = AllSensors
  /\ \E ir \in ValRawIR, ht \in ValRawHumidityTemp, h \in ValRawHumidity,
        baro \in RawBaro, light \in RawLight :
        partial = RawSample(ir, ht, h, baro, light)
  /\ readings = EmptyDict
  /\ worksheet = 1
  /\ row = FIRST_ROW
  /\ sheet \in InitialSheets
  /\ now = SETTLE_SECONDS
  /\ exitCode = 0
  /\ exitCause = "none"
  /\ openCalls = 1
  /\ opens = 1
  /\ nAcq = 1
  /\ nEmpty = 0
  /\ nStale = 0
  /\ emptyRun = 0
  /\ staleRun = 0
  /\ rowAtEmpty = 0
  /\ insAtEmpty = 0
  /\ stalePending = FALSE
  /\ failedIndex = 0
  /\ failedSample = EmptyDict
  /\ acqSinceStale = 0
  /\ inserts = << >>
  /\ faulted = FALSE
  /\ enabledAll = TRUE
  /\ disableCalls = {}

\* The rest of that acquisition and the append attempt that follows it.
ValidateNext ==
  \/ \E k \in 1..(NSensors + 1) : GetDisable(k)
  \/ LoopPrint
  \/ AppendOk
  \/ AppendFail

SpecValidate == ValidateInit /\ [][ValidateNext]_vars

\* ------------------------------------------------------------------ claims
\* Number of successful insert_row calls made with index i.
InsertsAt(i) == Cardinality({ j \in 1..Len(inserts) : inserts[j] = i })

\* Positions of the sheet holding rows written by the run (timestamp > 0).
DataPositions == { i \in 1..Len(sheet) : sheet[i][1] > 0 }

\* The readings an append attempt made now would put in the row.
SampleNow == Validate(readings)

\* C1 (as stated): when the loop is back at the append step after an append
\* attempt failed (STALE) and the session was reopened, it uses the same index
\* and the same sample as the failed attempt, and get_readings was not called
\* in between.
C1_RetrySameRow ==
  (pc = "append" /\ stalePending) =>
    /\ row = failedIndex
    /\ acqSinceStale = 0
    /\ SampleNow = failedSample

\* C1 (amended): after a failed append attempt the index stays that of the
\* failed attempt until the next attempt, which is made with a reopened
\* session, with no row inserted in between, and with a sample acquired anew
\* (get_readings was called at least once since the failure).
C1_RetrySameIndexFreshSample ==
  stalePending =>
    /\ row = failedIndex
    /\ InsertsAt(failedIndex) = 0
    /\ pc = "append" =>
         /\ acqSinceStale >= 1
         /\ worksheet # 0
         /\ worksheet = opens

\* A retry after STALE is about to be made with a sample that differs from
\* the one of the failed attempt.
C1_Witness ==
  /\ pc = "append"
  /\ stalePending
  /\ row = failedIndex
  /\ SampleNow # failedSample

\* C2: every index has at most one row inserted for it, however many append
\* attempts failed before: indices already left behind have exactly one, the
\* current index has one exactly during the cadence sleep, later ones none.
C2_OneRowPerSlot ==
  \A i \in 1..(MaxRow + 1) :
    /\ InsertsAt(i) <= 1
    /\ i < row => InsertsAt(i) = 1
    /\ (i = row /\ pc = "sleep") => InsertsAt(i) = 1
    /\ (i = row /\ pc # "sleep") => InsertsAt(i) = 0
    /\ i > row => InsertsAt(i) = 0

\* The current slot got its row after two append attempts failed.
C2_Witness ==
  /\ pc = "sleep"
  /\ staleRun >= 2
  /\ InsertsAt(row) = 1

\* C3: once the loop runs, the number of rows inserted is row - 1, and row
\* during the cadence sleep; the sheet holds exactly that many rows of the
\* run and no index was used twice.
C3_RowsMatchIndex ==
  LoopStarted =>
    /\ Len(inserts) = IF pc = "sleep" THEN row ELSE row - 1
    /\ Cardinality(DataPositions) = Len(inserts)
    /\ \A i \in 1..Len(inserts) : inserts[i] = i

\* The loop sleeps after its second row.
C3_Witness ==
  /\ pc = "sleep"
  /\ row = 2
  /\ Len(inserts) = 2

\* State part of C4: after EMPTY acquisitions in a slot the index is the one
\* held at the first EMPTY, nothing is inserted until the append succeeds,
\* and then exactly one row, at that index.
C4_EmptyRunState ==
  emptyRun > 0 =>
    /\ row = rowAtEmpty
    /\ pc # "sleep" => Len(inserts) = insAtEmpty
    /\ pc = "sleep" =>
         /\ Len(inserts) = insAtEmpty + 1
         /\ inserts[Len(inserts)] = rowAtEmpty

\* Step part of C4: a step of the EMPTY / reconnect path changes neither the
\* index nor the sheet, takes no cadence time and does not enter the sleep.
C4_EmptyPathStep ==
  ((pc = "returned" /\ readings = EmptyDict) \/ pc = "reconnect") =>
    /\ row' = row
    /\ sheet' = sheet
    /\ inserts' = inserts
    /\ now' = now
    /\ pc' # "sleep"

\* C4: N EMPTY acquisitions, each followed by a reconnect, then a successful
\* acquisition and append insert exactly one row at the index held before the
\* first EMPTY; the EMPTY path neither advances the index, inserts, nor sleeps.
C4_EmptyThenOneRow ==
  [](C4_EmptyRunState) /\ [][C4_EmptyPathStep]_vars

\* A row went in after two EMPTY acquisitions and no failed append.
C4_Witness ==
  /\ pc = "sleep"
  /\ emptyRun = 2
  /\ staleRun = 0
  /\ Len(inserts) = insAtEmpty + 1

\* C5: get_readings returns either {} or all seven readings; an acquisition
\* that caught a BTLEException returned {} and the exception did not leave
\* get_readings.
C5_EmptyOnFault ==
  /\ pc = "returned" => DOMAIN readings \in { {}, Keys }
  /\ faulted =>
       /\ readings = EmptyDict
       /\ pc \in { "returned", "reconnect", "acquire", "crashed" }
       /\ exitCause \in { "none", "reconnect" }

\* get_readings returned after a fault that came after enable_sensors, i.e.
\* at a read or at a disable.
C5_Witness ==
  /\ pc = "returned"
  /\ faulted
  /\ enabledAll
  /\ readings = EmptyDict

\* C6 (as stated): an acquisition that completed enable_sensors has called
\* disable on every channel by the time it returns.
C6_DisableAlways ==
  (pc = "returned" /\ enabledAll) => disableCalls = AllSensors

\* C7 (as stated): the rows written by the run are in reverse-chronological
\* order, every later row above every earlier one.
C7_ReverseChronological ==
  \A i, j \in DataPositions : i < j => sheet[i][1] > sheet[j][1]

\* C7 (amended): the rows written by the run are in chronological order at
\* the top of the sheet: they fill positions 1..k, oldest first, and what the
\* sheet held before the run follows them.
C7_Chronological ==
  /\ DataPositions = 1..Len(inserts)
  /\ \A i, j \in DataPositions : i < j => sheet[i][1] < sheet[j][1]
  /\ SubSeq(sheet, Len(inserts) + 1, Len(sheet)) \in InitialSheets

\* Two rows were written above a header.
C7_Witness ==
  /\ Len(inserts) >= 2
  /\ Len(sheet) = Len(inserts) + 1
  /\ sheet[Len(sheet)] = HeaderRow

\* C8 (as stated): a failed reconnect does not end the process.
C8_ReconnectNeverFatal ==
  ~(Terminated /\ exitCause = "reconnect")

\* C9 (as stated, loop part): once the loop runs, a failure to reopen the
\* session does not make the process exit.
C9_NoExitOnceRunning ==
  ~(LoopStarted /\ pc = "exited")

\* C10: a failed open at start-up ends the process with status 1 after a
\* single open call, before row is set, with no acquisition and no insert.
C10_StartupOpenFatal ==
  (opens = 0 /\ openCalls > 0) =>
    /\ pc = "exited"
    /\ exitCode = EXIT_FAILURE
    /\ exitCause = "login"
    /\ openCalls = 1
    /\ ~LoopStarted
    /\ nAcq = 0
    /\ inserts = << >>
    /\ sheet \in InitialSheets

\* The process exited on the start-up login.
C10_Witness ==
  /\ pc = "exited"
  /\ exitCause = "login"
  /\ openCalls = 1

\* A step in which append_readings inserts its row.
AppendStep == pc = "append" /\ pc' = "sleep"

\* A step in which append_readings runs, whether or not the insert succeeds.
AppendAttempt == pc = "append" /\ pc' \in { "sleep", "relogin" }

\* C11 (as stated): the humidity cell of the written row is empty when the
\* sample's humidity is <= 1 or >= 99, and the humidity itself otherwise.
C11_HumidityOpenInterval ==
  [][ AppendStep =>
        sheet'[row][6] =
          IF readings["humidity"] <= HUMIDITY_MIN
               \/ readings["humidity"] >= HUMIDITY_MAX
          THEN BLANK ELSE readings["humidity"] ]_vars

\* C11 (amended): the humidity cell of the written row is empty when the
\* sample's humidity is < 1 or > 99, and the humidity itself when
\* 1 <= humidity <= 99; 1.0 and 99.0 are written.
C11_HumidityClosedInterval ==
  [][ AppendStep =>
        sheet'[row][6] =
          IF readings["humidity"] < HUMIDITY_MIN
               \/ readings["humidity"] > HUMIDITY_MAX
          THEN BLANK ELSE readings["humidity"] ]_vars

\* A row was written whose humidity cell holds the bound 99.00.
C11_Witness ==
  /\ pc = "sleep"
  /\ sheet[row][6] = HUMIDITY_MAX

\* C12 (as stated): the humidity_temp cell of the written row is empty
\* exactly when humidity_temp and ir_temp differ by more than 2, it is
\* humidity_temp itself otherwise, and the ir_temp cell is ir_temp.
C12_BandInclusive ==
  [][ AppendStep =>
        LET ht == readings["humidity_temp"]
            it == readings["ir_temp"]
        IN  /\ sheet'[row][3] =
                 IF ht - it > TEMP_BAND \/ it - ht > TEMP_BAND
                 THEN BLANK ELSE ht
            /\ sheet'[row][2] = it ]_vars

\* C13: an append attempt leaves the set of keys of the sample as it was,
\* changes no reading other than humidity_temp and humidity, and changes
\* those two only to the empty cell; the cells of the other five channels
\* in the written row are the sample's readings.
C13_OtherFieldsPassThrough ==
  [][ AppendAttempt =>
        /\ DOMAIN readings' = DOMAIN readings
        /\ \A k \in DOMAIN readings :
             \/ readings'[k] = readings[k]
             \/ /\ k \in { "humidity_temp", "humidity" }
                /\ readings'[k] = BLANK
        /\ pc' = "sleep" =>
             /\ sheet'[row][2] = readings["ir_temp"]
             /\ sheet'[row][4] = readings["baro_temp"]
             /\ sheet'[row][5] = readings["ir"]
             /\ sheet'[row][7] = readings["pressure"]
             /\ sheet'[row][8] = readings["light"] ]_vars

\* A row was written from a sample that lost both filtered readings and
\* kept the other five.
C13_Witness ==
  /\ pc = "sleep"
  /\ readings["humidity_temp"] = BLANK
  /\ readings["humidity"] = BLANK
  /\ \A k \in Keys \ { "humidity_temp", "humidity" } : readings[k] # BLANK

\* C14: every row of the run has 8 cells, and the row just written is the
\* timestamp followed by ir_temp, humidity_temp, baro_temp, ir, humidity,
\* pressure, light of the filtered sample, an absent one as the empty cell.
C14_RowLayout ==
  /\ \A i \in DataPositions : Len(sheet[i]) = 8
  /\ pc = "sleep" =>
       sheet[row] = << now, readings["ir_temp"], readings["humidity_temp"],
                       readings["baro_temp"], readings["ir"],
                       readings["humidity"], readings["pressure"],
                       readings["light"] >>

\* A row was written with an empty humidity_temp cell next to a present
\* humidity cell.
C14_Witness ==
  /\ pc = "sleep"
  /\ sheet[row][3] = BLANK
  /\ sheet[row][6] # BLANK
  /\ sheet[row][1] = now

\* C15: the loop enters the cadence sleep only from a successful append;
\* cadence time passes and the index changes (by +1) only in the step that
\* ends that sleep; a failed append goes to the reopen and the reopen goes
\* back to acquisition (or ends the process), both without sleep and with
\* the index unchanged.
C15_SleepAndIndexSteps ==
  [][ /\ (pc' = "sleep" /\ pc # "sleep") =>
            /\ pc = "append"
            /\ inserts' = Append(inserts, row)
      /\ (LoopStarted /\ row' # row) =>
            /\ pc = "sleep"
            /\ row' = row + 1
            /\ now' = now + FREQUENCY_SECONDS
      /\ now' # now =>
            \/ pc = "sleep" /\ now' = now + FREQUENCY_SECONDS /\ row' = row + 1
            \/ pc = "acquire" /\ now' = now + SETTLE_SECONDS
      /\ (pc = "append" /\ pc' # "sleep" /\ pc' # pc) =>
            /\ pc' = "relogin"
            /\ row' = row
            /\ now' = now
      /\ (pc = "relogin" /\ pc' # pc) =>
            /\ pc' \in { "acquire", "exited" }
            /\ row' = row
            /\ now' = now ]_vars

\* In the second slot the loop is back at acquisition after a failed append
\* and a reopen, the index unchanged.
C15_Witness ==
  /\ pc = "acquire"
  /\ stalePending
  /\ row = 2
  /\ failedIndex = 2
  /\ opens >= 2

\* State part of C17: the k-th successful insert used index k, the first k
\* rows of the sheet are the rows of the run, oldest first.
C17_TopRows ==
  LET k == Len(inserts)
  IN  /\ \A i \in 1..k : inserts[i] = i
      /\ Len(sheet) >= k
      /\ \A i \in 1..k : sheet[i][1] > 0
      /\ \A i \in 1..(k - 1) : sheet[i][1] < sheet[i + 1][1]
      /\ \A i \in (k + 1)..Len(sheet) : sheet[i][1] = 0

\* Step part of C17: what follows the rows of the run never changes.
C17_RestUnchanged ==
  SubSeq(sheet', Len(inserts') + 1, Len(sheet'))
    = SubSeq(sheet, Len(inserts) + 1, Len(sheet))

\* C17: after k successful appends the positions 1..k of the sheet hold the
\* k rows in capture order, the k-th append having used index k, and the
\* rows the sheet held before the run follow from position k + 1, unchanged.
C17_KthAppendAtIndexK ==
  [](C17_TopRows) /\ [][C17_RestUnchanged]_vars

\* Three rows were written above the header the sheet started with.
C17_Witness ==
  /\ Len(inserts) = 3
  /\ Len(sheet) = 4
  /\ sheet[4] = HeaderRow

\* C18: whenever the loop is at the append step its worksheet is not None
\* and is the handle of the latest successful login_open_sheet; while the
\* loop runs anywhere but in the reopen the same holds.
C18_AppendWithLatestHandle ==
  /\ pc = "append" => (worksheet # 0 /\ worksheet = opens)
  /\ (LoopStarted /\ pc \notin { "relogin", "exited" }) => worksheet = opens
  /\ pc = "relogin" => worksheet = 0

\* An append is about to be attempted with the handle of a reopen.
C18_Witness ==
  /\ pc = "append"
  /\ opens >= 2
  /\ worksheet = opens

\* C19: at the append step, in the reopen that may follow it and during the
\* cadence sleep no channel is enabled, and the acquisition behind the sample
\* completed enable_sensors and called disable on all eight channels without
\* a fault.
C19_DisabledAtAppend ==
  pc \in { "append", "relogin", "sleep" } =>
    /\ enabled = {}
    /\ enabledAll
    /\ disableCalls = AllSensors
    /\ ~faulted

\* An append is about to be attempted in a slot in which an earlier
\* acquisition was cut short.
C19_Witness ==
  /\ pc = "append"
  /\ emptyRun >= 1
  /\ enabled = {}

\* C20: in every row of the run the humidity_temp cell is empty or within 2
\* of the ir_temp cell, and the humidity cell is empty or between 1 and 99.
C20_RowsAreFiltered ==
  \A i \in DataPositions :
    /\ \/ sheet[i][3] = BLANK
       \/ /\ sheet[i][3] - sheet[i][2] <= TEMP_BAND
          /\ sheet[i][2] - sheet[i][3] <= TEMP_BAND
    /\ \/ sheet[i][6] = BLANK
       \/ /\ sheet[i][6] >= HUMIDITY_MIN
          /\ sheet[i][6] <= HUMIDITY_MAX

\* The sheet holds a row with both filtered cells empty and a row with both
\* present.
C20_Witness ==
  /\ \E i \in DataPositions : sheet[i][3] = BLANK /\ sheet[i][6] = BLANK
  /\ \E i \in DataPositions : sheet[i][3] # BLANK /\ sheet[i][6] # BLANK

\* The loop has reached the last index followed and sleeps after its append.
AtLastRow == pc = "sleep" /\ row = MaxRow

\* C16: when every reconnect and every reopen succeeds and only finitely many
\* acquisitions and appends fail, the running loop always has a next step
\* (short of the last index followed), and eventually a row has been inserted
\* at every index 1..MaxRow.
C16_EveryIndexGetsItsRow ==
  /\ []((LoopStarted /\ ~AtLastRow) => ENABLED << NextRecovering >>_vars)
  /\ <>(\A n \in 1..MaxRow : InsertsAt(n) = 1)

\* Every index got its row in a run in which acquisitions and appends failed.
C16_Witness ==
  /\ \A n \in 1..MaxRow : InsertsAt(n) = 1
  /\ nEmpty >= 1
  /\ nStale >= 1

====
